---- MODULE Spec2Model ----
(***************************************************************************)
(* A model of src/dragon_dictation_pro/dragon_gpu_server.py: the metrics   *)
(* tracker (two JSON-lines logs and their windowed summary) and the HTTP   *)
(* handlers that use it (transcribe, transcribe_batch, process_note,       *)
(* report_correction, get_metrics).                                        *)
(*                                                                         *)
(* Numbers.  Python floats are modelled as exact rationals [num, den] in   *)
(* lowest terms, so sums, means and threshold comparisons are exact;       *)
(* binary rounding of floats is not modelled.  Times are whole seconds.    *)
(*                                                                         *)
(* JSON.  A JSON value is a tagged record: JNum(r), JStr(s), JDict(pairs), *)
(* JList.  A JSON object whose key order matters (the reply of the text    *)
(* generation service) is a sequence of [key, val] pairs with distinct     *)
(* keys; a log record, whose key order does not matter, is a TLA+ record   *)
(* and a key the object lacks is a field the record lacks.                 *)
(*                                                                         *)
(* Threads.  A handler runs to completion in one step, except under        *)
(* SpecAppend, where the appends of handlers in several threads are taken  *)
(* apart into the steps of the file object, on the text of the file.       *)
(***************************************************************************)
EXTENDS Integers, Sequences, FiniteSets, TLC

VARIABLES
    transcription_log,  \* lines of metrics/transcriptions.jsonl, oldest first
    template_log,       \* lines of metrics/templates.jsonl, oldest first
    log_files,          \* which of the two log files exist on disk
    now,                \* the wall clock, in seconds
    gemini_model,       \* TRUE when the Gemini client was configured at start-up
    call,               \* the handler that ran last: its inputs and what it did
    response,           \* the response that handler returned
    open_files          \* the file objects of appends in progress, per handler thread

vars == <<transcription_log, template_log, log_files, now, gemini_model, call, response,
          open_files>>

----------------------------------------------------------------------------
(* Bounds of the model *)

MaxAppends == 2     \* records appended to the two logs together, per run
MaxTicks == 1       \* clock steps per run
MaxFiles == 3       \* files in one transcribe_batch request
MaxLines == 3       \* lines of the two logs together, when the logs are inputs

(* Program constants *)

SecondsPerDay == 86400
DefaultDays == 7

----------------------------------------------------------------------------
(* Rationals in lowest terms, den > 0 *)

RECURSIVE GCD(_, _)
GCD(a, b) == IF b = 0 THEN a ELSE GCD(b, a % b)

Abs(n) == IF n < 0 THEN -n ELSE n

Rat(n, d) ==
    LET g == GCD(Abs(n), d)
    IN  [num |-> n \div g, den |-> d \div g]

Tenths(n) == Rat(n, 10)
RatZero == Rat(0, 1)
RatAdd(a, b) == Rat(a.num * b.den + b.num * a.den, a.den * b.den)
RatDivInt(a, k) == Rat(a.num, a.den * k)
RatLess(a, b) == a.num * b.den < b.num * a.den
RatLeq(a, b) == a.num * b.den <= b.num * a.den

RECURSIVE RatSum(_)
RatSum(values) ==
    IF values = <<>> THEN RatZero
    ELSE RatAdd(Head(values), RatSum(Tail(values)))

\* round(x, 2): to the nearest hundredth, ties to the even hundredth
Round2(r) ==
    LET scaled == r.num * 100
        q == scaled \div r.den
        rem == scaled % r.den
        up == \/ 2 * rem > r.den
              \/ 2 * rem = r.den /\ q % 2 = 1
    IN  Rat(IF up THEN q + 1 ELSE q, 100)

\* [f(s[1]), ..., f(s[n])]
Map(f(_), s) == [i \in 1..Len(s) |-> f(s[i])]

----------------------------------------------------------------------------
(* JSON values *)

JNum(r) == [type |-> "num", num |-> r]
JStr(s) == [type |-> "str", str |-> s]
JDict(pairs) == [type |-> "dict", items |-> pairs]
JList == [type |-> "list"]

\* isinstance(v, dict)
IsDict(v) == v.type = "dict"

\* d[key] of a dict that has the key
DictAt(d, key) ==
    LET i == CHOOSE j \in 1..Len(d.items) : d.items[j].key = key
    IN  d.items[i].val

DictKeys(d) == {d.items[j].key : j \in 1..Len(d.items)}

\* d.get(key, default)
DictGet(d, key, default) ==
    IF key \in DictKeys(d) THEN DictAt(d, key) ELSE default

----------------------------------------------------------------------------
(* Data classes for metrics, and the lines they become in a log *)

\* A datetime is a number of seconds.  str(datetime), which json.dumps uses
\* for the timestamp (default=str), gives an ISO string with a space between
\* date and time; datetime.fromisoformat reads it back.
DatetimeStr(t) == [fmt |-> "iso", secs |-> t]
NotADatetimeStr == [fmt |-> "other", secs |-> 0]

TranscriptionMetric(id, timestamp, audio_duration, processing_time, word_count, confidence_avg, model_used) ==
    [id |-> id, timestamp |-> timestamp, audio_duration |-> audio_duration,
     processing_time |-> processing_time, word_count |-> word_count,
     confidence_avg |-> confidence_avg, model_used |-> model_used]

TemplateMetric(id, timestamp, template_key, template_source, processing_time, field_count, low_confidence_count, avg_confidence) ==
    [id |-> id, timestamp |-> timestamp, template_key |-> template_key,
     template_source |-> template_source, processing_time |-> processing_time,
     field_count |-> field_count, low_confidence_count |-> low_confidence_count,
     avg_confidence |-> avg_confidence, user_corrections |-> 0]

\* json.dumps(asdict(metric), default=str) + '\n': one line holding one JSON
\* object, every field of the dataclass a key, the timestamp as a string
JsonLine(metric) ==
    [json |-> TRUE, data |-> [metric EXCEPT !.timestamp = DatetimeStr(@)]]

\* a line that json.loads rejects
GarbageLine == [json |-> FALSE, data |-> [raw |-> "garbage"]]

----------------------------------------------------------------------------
(* class MetricsTracker *)

TRANSCRIPTION_LOG == "transcriptions.jsonl"
TEMPLATE_LOG == "templates.jsonl"

\* with open(path, 'a') as f: f.write(line): creates the file when it is
\* missing and puts the line after everything the file holds
log_transcription(lines, metric) == Append(lines, JsonLine(metric))

\* a writer that opens the file with 'w': the new line replaces the file
log_template_usage_truncating(lines, metric) == << JsonLine(metric) >>

log_template_usage(lines, metric) == Append(lines, JsonLine(metric))

----------------------------------------------------------------------------
(* The text of a log file.  What a writer hands to the operating system is *)
(* text, and what a reader gets back is text: a file is a sequence of      *)
(* pieces of text, a line is the pieces up to a newline, and a line is a   *)
(* record only if json.loads takes it.  A piece is a brace, a newline, a   *)
(* key, or (part of) a value; the template key is a string of one piece    *)
(* ("carotid") or two ("custom_", the eight hex digits), so that records   *)
(* differ in length.                                                       *)

Chunk(t, s) == [t |-> t, s |-> s]
LBrace == Chunk("{", "")
RBrace == Chunk("}", "")
Newline == Chunk("nl", "")

\* the fields of the two dataclasses, in the order asdict gives them
TranscriptionMetricFields ==
    << "id", "timestamp", "audio_duration", "processing_time", "word_count",
       "confidence_avg", "model_used" >>
TemplateMetricFields ==
    << "id", "timestamp", "template_key", "template_source", "processing_time",
       "field_count", "low_confidence_count", "avg_confidence",
       "user_corrections" >>

FieldsOf(path) ==
    IF path = TEMPLATE_LOG THEN TemplateMetricFields ELSE TranscriptionMetricFields

RECURSIVE Concat(_)
Concat(seqs) == IF seqs = <<>> THEN <<>> ELSE Head(seqs) \o Concat(Tail(seqs))

\* "key": value
ItemText(name, v) ==
    << Chunk("key", name) >>
    \o (IF name = "template_key" THEN Map(LAMBDA part : Chunk("val", part), v)
        ELSE << Chunk("val", v) >>)

\* json.dumps(data): the keys data has, in the order of the dataclass
json_dumps(data, fields) ==
    LET present == SelectSeq(fields, LAMBDA name : name \in DOMAIN data)
    IN  << LBrace >>
        \o Concat(Map(LAMBDA name : ItemText(name, data[name]), present))
        \o << RBrace >>

\* json.loads(line) for the text of one line: an object, or a ValueError
json_loads_line(text) ==
    LET n == Len(text)
        inner == SubSeq(text, 2, n - 1)
        m == Len(inner)
        K == {i \in 1..m : inner[i].t = "key"}
        last(i) == IF \E j \in K : j > i
                   THEN (CHOOSE j \in K : j > i /\ \A k \in K : k > i => j <= k) - 1
                   ELSE m
        value(i) == IF inner[i].s = "template_key"
                    THEN Map(LAMBDA c : c.s, SubSeq(inner, i + 1, last(i)))
                    ELSE inner[i + 1].s
        ok == /\ n >= 2
              /\ text[1].t = "{"
              /\ text[n].t = "}"
              /\ \A i \in 1..m : inner[i].t \in {"key", "val"}
              /\ m > 0 => 1 \in K
              /\ \A i \in K : /\ last(i) > i
                              /\ inner[i].s # "template_key" => last(i) = i + 1
              /\ \A i, j \in K : inner[i].s = inner[j].s => i = j
    IN  IF ok
        THEN [ok |-> TRUE,
              val |-> [name \in {inner[i].s : i \in K} |->
                          value(CHOOSE i \in K : inner[i].s = name)]]
        ELSE [ok |-> FALSE, val |-> [raw |-> text]]

\* the text of one line of a log, without its newline
LineText(line, fields) ==
    IF line.json THEN json_dumps(line.data, fields) ELSE line.data.raw

\* the text of a file that holds these lines
FileText(lines, fields) ==
    Concat(Map(LAMBDA line : LineText(line, fields) \o << Newline >>, lines))

\* for line in f: the text cut after every newline; text after the last
\* newline is a line too
RECURSIVE SplitLines(_)
SplitLines(text) ==
    LET ends == {i \in 1..Len(text) : text[i].t = "nl"}
    IN  IF text = <<>> THEN <<>>
        ELSE IF ends = {} THEN << text >>
        ELSE LET e == CHOOSE i \in ends : \A j \in ends : i <= j
             IN  << SubSeq(text, 1, e - 1) >>
                 \o SplitLines(SubSeq(text, e + 1, Len(text)))

\* the lines a reader finds in a file of this text
ReadLines(text) ==
    Map(LAMBDA l : LET parsed == json_loads_line(l)
                   IN  [json |-> parsed.ok, data |-> parsed.val],
        SplitLines(text))

\* with open(path, 'a') as f, one step at a time.  open() creates the file
\* and gives a buffered file object in append mode; f.write() puts the text
\* in the buffer of the file object (a record is shorter than the buffer);
\* leaving the with block closes the file, which flushes the buffer in one
\* write to the operating system.
FileOpened(path) == [pc |-> "opened", path |-> path, buffer |-> <<>>, pos |-> 0]
FileWritten(f, line) == [f EXCEPT !.pc = "written", !.buffer = LineText(line, FieldsOf(f.path)) \o << Newline >>]

\* a write in append mode where the operating system moves to the end of
\* the file and writes in one step (O_APPEND on a local POSIX file system)
AppendWrite(text, f) == text \o f.buffer

\* a write in append mode where moving to the end of the file and writing
\* are two steps (a C runtime that emulates append by a seek, a network file
\* system): the text goes where the end of the file was at the seek
FileSeeked(text, f) == [f EXCEPT !.pc = "seeked", !.pos = Len(text)]
WriteAt(text, f) ==
    SubSeq(text, 1, f.pos) \o f.buffer
    \o SubSeq(text, f.pos + Len(f.buffer) + 1, Len(text))

\* a reader that drops the record written exactly at the cutoff
KeepsLineAfterCutoff(line, cutoff) ==
    /\ line.json
    /\ "timestamp" \in DOMAIN line.data
    /\ line.data.timestamp.fmt = "iso"
    /\ line.data.timestamp.secs > cutoff

\* the body of the try in _read_metrics: the line is kept when json.loads
\* takes it, it has a 'timestamp', fromisoformat takes that, and the time is
\* not before the cutoff; any exception skips the line
KeepsLine(line, cutoff) ==
    /\ line.json
    /\ "timestamp" \in DOMAIN line.data
    /\ line.data.timestamp.fmt = "iso"
    /\ line.data.timestamp.secs >= cutoff

_read_metrics(exists, lines, cutoff) ==
    IF ~exists THEN <<>>
    ELSE Map(LAMBDA l : l.data, SelectSeq(lines, LAMBDA l : KeepsLine(l, cutoff)))

_avg(values) ==
    IF values # <<>> THEN RatDivInt(RatSum(values), Len(values)) ELSE RatZero

\* t.get('user_corrections', 0)
CorrectionsOf(t) ==
    IF "user_corrections" \in DOMAIN t THEN t.user_corrections ELSE 0

\* the keys of template_groups, in the order the loop over templates inserts
\* them (a dict keeps insertion order)
RECURSIVE GroupKeys(_)
GroupKeys(templates) ==
    IF templates = <<>> THEN <<>>
    ELSE LET rest == GroupKeys(SubSeq(templates, 1, Len(templates) - 1))
             key == templates[Len(templates)].template_key
         IN  IF \E i \in 1..Len(rest) : rest[i] = key THEN rest
             ELSE Append(rest, key)

\* template_groups[key]
GroupOf(templates, key) == SelectSeq(templates, LAMBDA t : t.template_key = key)

\* a condition that asks for both low confidence and many corrections
IsProblematicBoth(avg_conf, avg_corrections) ==
    RatLess(avg_conf, Tenths(6)) /\ RatLess(Rat(2, 1), avg_corrections)

\* the condition under which a group is reported
IsProblematic(avg_conf, avg_corrections) ==
    RatLess(avg_conf, Tenths(6)) \/ RatLess(Rat(2, 1), avg_corrections)

ProblematicEntry(key, group) ==
    LET avg_conf == _avg(Map(LAMBDA t : t.avg_confidence, group))
        avg_corrections == _avg(Map(LAMBDA t : Rat(CorrectionsOf(t), 1), group))
    IN  IF IsProblematic(avg_conf, avg_corrections)
        THEN << [template_key |-> key,
                 usage_count |-> Len(group),
                 avg_confidence |-> Round2(avg_conf),
                 avg_corrections |-> Round2(avg_corrections),
                 recommendation |-> "Consider template revision"] >>
        ELSE <<>>

RECURSIVE ProblematicOver(_, _)
ProblematicOver(keys, templates) ==
    IF keys = <<>> THEN <<>>
    ELSE ProblematicEntry(Head(keys), GroupOf(templates, Head(keys)))
         \o ProblematicOver(Tail(keys), templates)

_identify_problematic(templates) ==
    ProblematicOver(GroupKeys(templates), templates)

get_summary(days) ==
    LET cutoff == now - days * SecondsPerDay
        transcriptions == _read_metrics(TRANSCRIPTION_LOG \in log_files,
                                        transcription_log, cutoff)
        templates == _read_metrics(TEMPLATE_LOG \in log_files, template_log, cutoff)
    IN  [period_days |-> days,
         transcription_stats |->
            [total_count |-> Len(transcriptions),
             avg_processing_time |->
                _avg(Map(LAMBDA t : t.processing_time, transcriptions)),
             avg_confidence |->
                _avg(Map(LAMBDA t : t.confidence_avg, transcriptions))],
         template_stats |->
            [total_count |-> Len(templates),
             avg_processing_time |->
                _avg(Map(LAMBDA t : t.processing_time, templates)),
             avg_confidence |->
                _avg(Map(LAMBDA t : t.avg_confidence, templates)),
             dynamic_template_usage |->
                Len(SelectSeq(templates, LAMBDA t : t.template_source = "dynamic")),
             problematic_templates |-> _identify_problematic(templates)]]

----------------------------------------------------------------------------
(* Configuration loaded at start-up *)

\* A string that is built from parts ("custom_" + ...) is the sequence of
\* its parts; a template key is such a string.
KeyK1 == <<"carotid">>
KeyK2 == <<"fistula">>
KeyUnknown == <<"unknown">>

\* A template text is a sequence of parts, literal text or a {placeholder}.
Lit(s) == [part |-> "text", s |-> s]
Ph(s) == [part |-> "placeholder", s |-> s]

TextK1 == << Lit("Procedure Date: "), Ph("date"), Lit(" Diagnosis: "), Ph("dx") >>
TextK2 == << Lit("Date: "), Ph("date") >>
TextCustom == << Ph("date"), Lit(" Findings: "), Ph("findings"), Lit(" "), Ph("date") >>
EmptyStr == <<>>

\* the placeholders of a template text: the identifiers between braces
placeholders(body) ==
    {body[i].s : i \in {j \in 1..Len(body) : body[j].part = "placeholder"}}

\* config/macros.json
STATIC_TEMPLATES == (KeyK1 :> TextK1) @@ (KeyK2 :> TextK2)

\* gemini_model is not None: GOOGLE_API_KEY was set and the client was built
GeminiConfigurations == BOOLEAN

----------------------------------------------------------------------------
(* HTTP responses: jsonify(body), status *)

Reply(status, body) == [status |-> status, body |-> body]
ErrorBody(msg) == [error |-> msg]

----------------------------------------------------------------------------
(* process_note *)

\* data.get(key): None when the request lacks the key
None == [none |-> TRUE]
Some(v) == [none |-> FALSE, val |-> v]
Get(data, key) == IF key \in DOMAIN data THEN Some(data[key]) ELSE None

\* the truth value of data.get(key) for a string: neither None nor ""
Truthy(opt) == ~opt.none /\ opt.val # EmptyStr

\* "custom_" + str(uuid.uuid4())[:8]
CustomKey(uuid8) == <<"custom_">> \o <<uuid8>>

\* a selection that takes any macro_key, known or not
SelectTemplateAnyKey(data, uuid8) ==
    LET template_key == Get(data, "macro_key")
        custom_template == Get(data, "custom_template")
    IN  IF Truthy(custom_template)
        THEN [resolved |-> TRUE, template_text |-> custom_template.val,
              template_source |-> "dynamic", template_key |-> CustomKey(uuid8)]
        ELSE IF Truthy(template_key)
        THEN [resolved |-> TRUE,
              template_text |->
                 IF template_key.val \in DOMAIN STATIC_TEMPLATES
                 THEN STATIC_TEMPLATES[template_key.val] ELSE EmptyStr,
              template_source |-> "static", template_key |-> template_key.val]
        ELSE [resolved |-> FALSE, template_text |-> EmptyStr,
              template_source |-> "none", template_key |-> EmptyStr]

\* "Determine template source": the if / elif / else over custom_template and
\* macro_key
SelectTemplate(data, uuid8) ==
    LET template_key == Get(data, "macro_key")
        custom_template == Get(data, "custom_template")
    IN  IF Truthy(custom_template)
        THEN [resolved |-> TRUE, template_text |-> custom_template.val,
              template_source |-> "dynamic", template_key |-> CustomKey(uuid8)]
        ELSE IF Truthy(template_key) /\ template_key.val \in DOMAIN STATIC_TEMPLATES
        THEN [resolved |-> TRUE, template_text |-> STATIC_TEMPLATES[template_key.val],
              template_source |-> "static", template_key |-> template_key.val]
        ELSE [resolved |-> FALSE, template_text |-> EmptyStr,
              template_source |-> "none", template_key |-> EmptyStr]

\* The text the generation service returns is a sequence of tokens: a
\* markdown fence, a complete JSON document, or prose.
Fence(s) == [tok |-> s, val |-> JList]
Prose == [tok |-> "prose", val |-> JList]
Json(v) == [tok |-> "json", val |-> v]
\* the two markers the handler removes: a fence opening a json block, and a
\* bare fence (three backquotes)
Markers == {"fence_json", "fence"}

\* strip(); replace(marker, "") for both markers; strip()
StripMarkers(text) == SelectSeq(text, LAMBDA t : t.tok \notin Markers)

\* json.loads: the text must be exactly one JSON document
json_loads(text) ==
    IF Len(text) = 1 /\ text[1].tok = "json"
    THEN [ok |-> TRUE, val |-> text[1].val]
    ELSE [ok |-> FALSE, val |-> JList]

\* filled_json.values() that are dicts, in order
DictValues(filled_json) ==
    SelectSeq(Map(LAMBDA it : it.val, filled_json.items), IsDict)

\* data.get("confidence", 0)
ConfidenceOf(data) == DictGet(data, "confidence", JNum(RatZero))

\* confidences = [data.get("confidence", 0) for data in values if dict]
Confidences(filled_json) == Map(ConfidenceOf, DictValues(filled_json))

\* sum(confidences) and the comparison with 0.7 need numbers: TypeError
\* when a confidence is anything else
ScoringRaises(filled_json) ==
    \E i \in 1..Len(Confidences(filled_json)) :
        Confidences(filled_json)[i].type # "num"

AvgConfidence(filled_json) ==
    LET confidences == Map(LAMBDA c : c.num, Confidences(filled_json))
    IN  IF confidences # <<>>
        THEN RatDivInt(RatSum(confidences), Len(confidences))
        ELSE RatZero

\* a comparison that takes 0.7 itself for low
IsLowConfidenceAtMost(item) ==
    IsDict(item.val) /\ RatLeq(ConfidenceOf(item.val).num, Tenths(7))

\* isinstance(data, dict) and data.get("confidence", 0) < 0.7
IsLowConfidence(item) ==
    IsDict(item.val) /\ RatLess(ConfidenceOf(item.val).num, Tenths(7))

LowConfidenceFields(filled_json) ==
    Map(LAMBDA it : it.key, SelectSeq(filled_json.items, IsLowConfidence))

\* except json.JSONDecodeError: json.loads rejected the cleaned text
OnJSONDecodeError(sel, note_id, duration) ==
    [response |-> Reply(500, ErrorBody("Failed to parse AI response")),
     metrics |-> <<>>]

\* a handler that records the failed call as a usage of the template
OnExceptionLogsUsage(sel, note_id, duration, e) ==
    [response |-> Reply(500, ErrorBody(e)),
     metrics |-> << TemplateMetric(note_id, now, sel.template_key,
                                   sel.template_source, duration, 0, 0, RatZero) >>]

\* except Exception: anything else the try block raised; the body is str(e)
OnException(sel, note_id, duration, e) ==
    [response |-> Reply(500, ErrorBody(e)), metrics |-> <<>>]

\* the try block from "Calculate metrics" to the return, for a filled_json
\* that scoring accepts
OnParsed(sel, note_id, duration, filled_json) ==
    LET avg_confidence == AvgConfidence(filled_json)
        low_confidence_fields == LowConfidenceFields(filled_json)
        metric == TemplateMetric(note_id, now, sel.template_key,
                                 sel.template_source, duration,
                                 Len(filled_json.items),
                                 Len(low_confidence_fields), avg_confidence)
    IN  [response |->
            Reply(200,
                  [note_id |-> note_id,
                   fields |-> filled_json,
                   metadata |->
                      [processing_time |-> duration,
                       template_key |-> sel.template_key,
                       template_source |-> sel.template_source,
                       avg_confidence |-> avg_confidence,
                       low_confidence_count |-> Len(low_confidence_fields),
                       low_confidence_fields |-> low_confidence_fields]]),
         metrics |-> << metric >>]

\* What the generation service does with one prompt: it raises (transport or
\* service fault), or it returns a text
Raises == [kind |-> "raises", text |-> <<>>]
Returns(text) == [kind |-> "text", text |-> text]

\* how the extraction ended, for the record of the call
ExtractionOf(llm) ==
    IF llm.kind = "raises" THEN "service_error"
    ELSE IF ~json_loads(StripMarkers(llm.text)).ok THEN "unparseable"
    ELSE "parsed"

\* the try / except of process_note, once a template is selected
ProcessNoteTry(sel, note_id, duration, llm) ==
    IF llm.kind = "raises"
    THEN OnException(sel, note_id, duration, "generation service error")
    ELSE LET parsed == json_loads(StripMarkers(llm.text))
         IN  IF ~parsed.ok THEN OnJSONDecodeError(sel, note_id, duration)
             ELSE IF ~IsDict(parsed.val)
             THEN OnException(sel, note_id, duration,
                              "'list' object has no attribute 'values'")
             ELSE IF ScoringRaises(parsed.val)
             THEN OnException(sel, note_id, duration,
                              "unsupported operand type(s) for +: 'int' and 'str'")
             ELSE OnParsed(sel, note_id, duration, parsed.val)

\* the whole handler: the result, the metrics it logs, and how far it got
process_note(data, note_id, uuid8, duration, llm) ==
    IF ~gemini_model
    THEN [response |-> Reply(500, ErrorBody("Gemini is not configured")),
          metrics |-> <<>>, stage |-> "not_configured",
          sel |-> SelectTemplate(<<>>, uuid8), extraction |-> "not_called"]
    ELSE IF DOMAIN data = {} \/ "text" \notin DOMAIN data
    THEN [response |-> Reply(400, ErrorBody("Missing 'text'")),
          metrics |-> <<>>, stage |-> "missing_text",
          sel |-> SelectTemplate(<<>>, uuid8), extraction |-> "not_called"]
    ELSE LET sel == SelectTemplate(data, uuid8)
         IN  IF ~sel.resolved
             THEN [response |->
                     Reply(400, ErrorBody(
                        "Must provide either 'macro_key' or 'custom_template'")),
                   metrics |-> <<>>, stage |-> "select_template",
                   sel |-> sel, extraction |-> "not_called"]
             ELSE ProcessNoteTry(sel, note_id, duration, llm)
                  @@ [stage |-> "extraction", sel |-> sel,
                      extraction |-> ExtractionOf(llm)]

----------------------------------------------------------------------------
(* transcribe and transcribe_batch *)

\* What model.transcribe does with one file: it raises, or it returns the
\* segments (each a sequence of words and an avg_logprob) and the audio
\* duration.  " ".join(...).strip() of word sequences is their concatenation.
RECURSIVE JoinText(_)
JoinText(segments) ==
    IF segments = <<>> THEN <<>>
    ELSE Head(segments).text \o JoinText(Tail(segments))

\* the try / except of transcribe for a request that carries a file
transcribe(has_file, transcription_id, duration, outcome) ==
    IF ~has_file
    THEN [response |-> Reply(400, ErrorBody("No audio file provided")),
          metrics |-> <<>>]
    ELSE IF outcome.raises
    THEN [response |-> Reply(500, ErrorBody("Failed to process audio")),
          metrics |-> <<>>]
    ELSE LET confidences == Map(LAMBDA seg : seg.avg_logprob, outcome.segments)
             transcribed_text == JoinText(outcome.segments)
             word_count == Len(transcribed_text)
             avg_confidence ==
                IF confidences # <<>>
                THEN RatDivInt(RatSum(confidences), Len(confidences))
                ELSE RatZero
         IN  [response |->
                 Reply(200, [id |-> transcription_id,
                             text |-> transcribed_text,
                             segments |-> outcome.segments,
                             language |-> outcome.language,
                             duration |-> outcome.duration,
                             processing_time |-> duration,
                             word_count |-> word_count,
                             avg_confidence |-> avg_confidence]),
              metrics |->
                 << TranscriptionMetric(transcription_id, now, outcome.duration,
                                        duration, word_count, avg_confidence,
                                        "medium.en") >>]

\* one pass of the loop body of transcribe_batch, for the file at index idx
BatchResult(idx, file) ==
    IF file.outcome.raises
    THEN [file_index |-> idx, filename |-> file.filename,
          status |-> "error", error |-> "transcription failed"]
    ELSE [file_index |-> idx, filename |-> file.filename,
          text |-> JoinText(file.outcome.segments),
          duration |-> file.outcome.duration, status |-> "success"]

\* the loop without its per-file except: the first failure ends the batch
BatchResultsStopAtError(files) ==
    LET firstBad == IF \E i \in 1..Len(files) : files[i].outcome.raises
                    THEN CHOOSE i \in 1..Len(files) :
                            /\ files[i].outcome.raises
                            /\ \A j \in 1..(i - 1) : ~files[j].outcome.raises
                    ELSE Len(files)
    IN  [i \in 1..firstBad |-> BatchResult(i - 1, files[i])]

\* for idx, file in enumerate(files): try ... except ...: results.append(...)
BatchResults(files) == [i \in 1..Len(files) |-> BatchResult(i - 1, files[i])]

transcribe_batch(files, batch_id) ==
    IF files = <<>>
    THEN Reply(400, ErrorBody("No audio files provided"))
    ELSE LET results == BatchResults(files)
             successful == Len(SelectSeq(results, LAMBDA r : r.status = "success"))
         IN  Reply(200, [batch_id |-> batch_id,
                         total_files |-> Len(files),
                         successful |-> successful,
                         failed |-> Len(files) - successful,
                         results |-> results])

----------------------------------------------------------------------------
(* report_correction *)

report_correction(data) ==
    IF DOMAIN data = {} \/ "note_id" \notin DOMAIN data
    THEN Reply(400, ErrorBody("Missing 'note_id'"))
    ELSE LET corrections == IF "corrections" \in DOMAIN data
                            THEN data.corrections ELSE <<>>
         IN  Reply(200, [status |-> "recorded", note_id |-> data.note_id,
                         correction_count |-> Len(corrections)])

----------------------------------------------------------------------------
(* The inputs the handlers are run on *)

UUIDs == {"id-1", "id-2"}           \* str(uuid.uuid4())
UUID8s == {"0a1b2c3d"}              \* str(uuid.uuid4())[:8]
Durations == {Rat(3, 2)}            \* time.time() - start_time, seconds
DaysArgs == {-1, 1, DefaultDays}    \* ?days=N of GET /metrics

\* one field of the reply: {"value": ..., "confidence": ..., "source": ...}
Field(value, confidence, source) ==
    JDict(<< [key |-> "value", val |-> JStr(value)],
             [key |-> "confidence", val |-> confidence],
             [key |-> "source", val |-> JStr(source)] >>)

Pair(key, val) == [key |-> key, val |-> val]

\* the placeholders of TextK1, as the prompt asks
FilledK1 ==
    JDict(<< Pair("date", Field("01/02/2026", JNum(Tenths(10)), "explicit")),
             Pair("dx", Field("PAD", JNum(Tenths(5)), "inferred")) >>)
\* a key no template has, and one placeholder missing
FilledOther ==
    JDict(<< Pair("date", Field("01/02/2026", JNum(Tenths(9)), "explicit")),
             Pair("surgeon", Field("Dr. A", JNum(Tenths(8)), "contextual")) >>)
\* confidences outside 0.0-1.0
FilledOutOfRange ==
    JDict(<< Pair("date", Field("01/02/2026", JNum(Tenths(15)), "explicit")),
             Pair("dx", Field("PAD", JNum(Tenths(10)), "inferred")) >>)
FilledNegative ==
    JDict(<< Pair("date", Field("", JNum(Tenths(-2)), "inferred")) >>)
\* a value that is no dict, and a dict without a confidence
FilledLoose ==
    JDict(<< Pair("date", JStr("01/02/2026")),
             Pair("dx", JDict(<< Pair("value", JStr("PAD")) >>)) >>)
\* a confidence that is a string
FilledStrConfidence ==
    JDict(<< Pair("date", Field("01/02/2026", JStr("high"), "explicit")) >>)
FilledEmpty == JDict(<<>>)
\* a confidence of exactly 0.7 next to one below it
FilledBoundary ==
    JDict(<< Pair("date", Field("01/02/2026", JNum(Tenths(7)), "inferred")),
             Pair("dx", Field("PAD", JNum(Tenths(6)), "inferred")) >>)
\* a value that is no dict next to a field of high confidence
FilledMixed ==
    JDict(<< Pair("date", Field("01/02/2026", JNum(Tenths(9)), "explicit")),
             Pair("dx", JStr("PAD")) >>)

ServiceTexts ==
    { << Json(FilledK1) >>,
      << Fence("fence_json"), Json(FilledK1), Fence("fence") >>,
      << Json(FilledOther) >>,
      << Json(FilledOutOfRange) >>,
      << Json(FilledNegative) >>,
      << Json(FilledLoose) >>,
      << Json(FilledStrConfidence) >>,
      << Json(FilledEmpty) >>,
      << Json(FilledBoundary) >>,
      << Json(FilledMixed) >>,
      << Json(JList) >>,
      << Prose, Json(FilledK1) >>,
      << Prose >>,
      <<>> }

ServiceOutcomes == {Raises} \cup {Returns(t) : t \in ServiceTexts}

Dictation == <<"dictated", "text">>

ProcessNoteRequests ==
    { <<>>,
      [macro_key |-> KeyK1],
      [text |-> Dictation],
      [text |-> Dictation, macro_key |-> KeyK1],
      [text |-> Dictation, macro_key |-> KeyK2],
      [text |-> Dictation, macro_key |-> KeyUnknown],
      [text |-> Dictation, macro_key |-> EmptyStr],
      [text |-> Dictation, custom_template |-> TextCustom],
      [text |-> Dictation, custom_template |-> EmptyStr],
      [text |-> Dictation, custom_template |-> EmptyStr, macro_key |-> KeyK2],
      [text |-> Dictation, custom_template |-> TextCustom, macro_key |-> KeyK1],
      [text |-> Dictation, custom_template |-> TextCustom, macro_key |-> KeyUnknown] }

Segment(text, avg_logprob) == [text |-> text, avg_logprob |-> avg_logprob]
TranscribeRaises == [raises |-> TRUE, segments |-> <<>>, duration |-> 0,
                     language |-> "en"]
Transcribed(segments, duration) ==
    [raises |-> FALSE, segments |-> segments, duration |-> duration,
     language |-> "en"]

TranscribeOutcomes ==
    { TranscribeRaises,
      Transcribed(<<>>, 1),
      Transcribed(<< Segment(<<"left", "leg">>, Tenths(-2)),
                     Segment(<<"angiogram">>, Tenths(-5)) >>, 30) }

File(filename, outcome) == [filename |-> filename, outcome |-> outcome]

BatchFiles ==
    { File("a.wav", Transcribed(<< Segment(<<"left", "leg">>, Tenths(-2)) >>, 12)),
      File("b.wav", Transcribed(<< Segment(<<"right">>, Tenths(-1)),
                                   Segment(<<"arm">>, Tenths(-3)) >>, 20)),
      File("c.wav", TranscribeRaises) }

\* all sequences over S of length 0..n
RECURSIVE SeqsUpTo(_, _)
SeqsUpTo(S, n) ==
    IF n = 0 THEN {<<>>}
    ELSE LET shorter == SeqsUpTo(S, n - 1)
         IN  shorter \cup {Append(q, x) : q \in shorter, x \in S}

CorrectionRequests ==
    { [corrections |-> <<"dx">>],
      [note_id |-> "id-9"],
      [note_id |-> "id-1", corrections |-> <<"dx", "date", "dx">>] }

----------------------------------------------------------------------------
(* The service: start-up, and one action per request handler.  A handler   *)
(* runs to completion in one step; the requests it is run on, and the ids  *)
(* uuid4 may give it, are the action's parameters.                         *)

NoCall == [op |-> "none"]
NoResponse == Reply(0, ErrorBody("none"))

\* The threads that serve requests, and a thread that has no file open
HandlerThreads == {"thread-1", "thread-2"}
Closed == [pc |-> "closed", path |-> "", buffer |-> <<>>, pos |-> 0]
NoOpenFiles == [t \in HandlerThreads |-> [f |-> Closed, appended |-> <<>>]]

Init ==
    /\ transcription_log = <<>>
    /\ template_log = <<>>
    /\ log_files = {}
    /\ now = 0
    /\ gemini_model \in GeminiConfigurations
    /\ call = NoCall
    /\ response = NoResponse
    /\ open_files = NoOpenFiles

\* time passes between requests
Tick ==
    /\ now < MaxTicks * SecondsPerDay
    /\ now' = now + SecondsPerDay
    /\ UNCHANGED <<transcription_log, template_log, log_files, gemini_model,
                   call, response, open_files>>

\* POST /transcribe
Transcribe(ids, outcomes) ==
    \E has_file \in BOOLEAN, id \in ids, duration \in Durations,
       outcome \in outcomes :
        LET r == transcribe(has_file, id, duration, outcome)
        IN  /\ Len(transcription_log) + Len(template_log) + Len(r.metrics)
                  <= MaxAppends
            /\ transcription_log' =
                  IF r.metrics = <<>> THEN transcription_log
                  ELSE log_transcription(transcription_log, r.metrics[1])
            /\ log_files' =
                  IF r.metrics = <<>> THEN log_files
                  ELSE log_files \cup {TRANSCRIPTION_LOG}
            /\ response' = r.response
            /\ call' = [op |-> "transcribe", has_file |-> has_file,
                        raised |-> has_file /\ outcome.raises]
            /\ UNCHANGED <<template_log, now, gemini_model, open_files>>

\* POST /transcribe_batch
TranscribeBatch(ids, batches) ==
    \E files \in batches, batch_id \in ids :
        /\ response' = transcribe_batch(files, batch_id)
        /\ call' = [op |-> "transcribe_batch", files |-> files]
        /\ UNCHANGED <<transcription_log, template_log, log_files, now,
                       gemini_model, open_files>>

\* POST /process_note
ProcessNote(ids, requests, outcomes) ==
    \E data \in requests, note_id \in ids, uuid8 \in UUID8s,
       duration \in Durations, llm \in outcomes :
        LET r == process_note(data, note_id, uuid8, duration, llm)
        IN  /\ Len(transcription_log) + Len(template_log) + Len(r.metrics)
                  <= MaxAppends
            /\ template_log' =
                  IF r.metrics = <<>> THEN template_log
                  ELSE log_template_usage(template_log, r.metrics[1])
            /\ log_files' =
                  IF r.metrics = <<>> THEN log_files
                  ELSE log_files \cup {TEMPLATE_LOG}
            /\ response' = r.response
            /\ call' = [op |-> "process_note", data |-> data,
                        stage |-> r.stage, sel |-> r.sel,
                        extraction |-> r.extraction,
                        appended |-> Len(template_log') - Len(template_log)]
            /\ UNCHANGED <<transcription_log, now, gemini_model, open_files>>

\* POST /report_correction
ReportCorrection ==
    \E data \in CorrectionRequests :
        /\ response' = report_correction(data)
        /\ call' = [op |-> "report_correction", data |-> data]
        /\ UNCHANGED <<transcription_log, template_log, log_files, now,
                       gemini_model, open_files>>

\* GET /metrics
GetMetrics ==
    \E days \in DaysArgs :
        /\ response' = Reply(200, get_summary(days))
        /\ call' = [op |-> "get_metrics", days |-> days]
        /\ UNCHANGED <<transcription_log, template_log, log_files, now,
                       gemini_model, open_files>>

----------------------------------------------------------------------------
(* Spec: the service under any sequence of requests.  Every handler is     *)
(* there; the requests are a few of each kind, so that the logs can grow.  *)

SomeIds == {"id-1"}

SomeNoteRequests ==
    { [macro_key |-> KeyK1],
      [text |-> Dictation, macro_key |-> KeyK1],
      [text |-> Dictation, macro_key |-> KeyUnknown],
      [text |-> Dictation, custom_template |-> TextCustom] }

SomeServiceOutcomes ==
    { Raises,
      Returns(<< Prose >>),
      Returns(<< Fence("fence_json"), Json(FilledK1), Fence("fence") >>) }

SomeTranscribeOutcomes ==
    { TranscribeRaises,
      Transcribed(<< Segment(<<"left", "leg">>, Tenths(-2)),
                     Segment(<<"angiogram">>, Tenths(-5)) >>, 30) }

Next ==
    \/ Tick
    \/ Transcribe(SomeIds, SomeTranscribeOutcomes)
    \/ TranscribeBatch(SomeIds, SeqsUpTo(BatchFiles, 1))
    \/ ProcessNote(SomeIds, SomeNoteRequests, SomeServiceOutcomes)
    \/ ReportCorrection
    \/ GetMetrics

Spec == Init /\ [][Next]_vars

----------------------------------------------------------------------------
(* SpecNote: one process_note request, of every kind, served by a service  *)
(* whose template log is empty or holds an earlier record.                 *)

EarlierNote ==
    TemplateMetric("id-0", 0, KeyK2, "static", Rat(1, 1), 1, 0, Tenths(9))

InitNote ==
    /\ transcription_log = <<>>
    /\ template_log \in { <<>>, << JsonLine(EarlierNote) >> }
    /\ log_files = IF template_log = <<>> THEN {} ELSE {TEMPLATE_LOG}
    /\ now = SecondsPerDay
    /\ gemini_model \in GeminiConfigurations
    /\ call = NoCall
    /\ response = NoResponse
    /\ open_files = NoOpenFiles

NoteRequest ==
    /\ call = NoCall
    /\ ProcessNote(UUIDs, ProcessNoteRequests, ServiceOutcomes)

NextNote == NoteRequest

SpecNote == InitNote /\ [][NextNote]_vars

----------------------------------------------------------------------------
(* SpecBatch: transcribe_batch on every batch of up to MaxFiles files.     *)

BatchRequest == TranscribeBatch(UUIDs, SeqsUpTo(BatchFiles, MaxFiles))

NextBatch == BatchRequest

SpecBatch == Init /\ [][NextBatch]_vars

----------------------------------------------------------------------------
(* SpecSummary: get_summary on logs of every content: records of several   *)
(* keys, ages, confidences and correction counts, written by this or an    *)
(* earlier version of the service, and lines that are no records.          *)

SummaryNow == 10 * SecondsPerDay
LongAgo == 2 * SecondsPerDay
ADayAgo == SummaryNow - SecondsPerDay

\* a record of the template log
NoteLine(key, source, timestamp, seconds, confidence) ==
    JsonLine(TemplateMetric("id-1", timestamp, key, source, Rat(seconds, 1), 2, 1,
                            confidence))

\* the same with user_corrections set
Corrected(line, n) == [line EXCEPT !.data.user_corrections = n]

\* the same without the user_corrections key
Uncounted(line) ==
    [line EXCEPT !.data =
        [k \in DOMAIN line.data \ {"user_corrections"} |-> line.data[k]]]

TemplateLines ==
    { NoteLine(KeyK1, "static", SummaryNow, 1, Tenths(3)),
      NoteLine(KeyK1, "static", SummaryNow, 2, Tenths(5)),
      NoteLine(KeyK1, "static", ADayAgo, 3, Tenths(9)),
      Corrected(NoteLine(KeyK2, "static", ADayAgo, 1, Tenths(9)), 3),
      Corrected(NoteLine(KeyK2, "static", SummaryNow, 2, Tenths(8)), 1),
      NoteLine(KeyK2, "static", LongAgo, 4, Tenths(1)),
      Uncounted(NoteLine(CustomKey("0a1b2c3d"), "dynamic", SummaryNow, 5, Tenths(6))),
      GarbageLine,
      [NoteLine(KeyK1, "static", SummaryNow, 1, Tenths(1))
         EXCEPT !.data.timestamp = NotADatetimeStr] }

SpokenLine(timestamp, seconds, confidence) ==
    JsonLine(TranscriptionMetric("id-2", timestamp, 30, Rat(seconds, 1), 3,
                                 confidence, "medium.en"))

TranscriptionLines ==
    { SpokenLine(SummaryNow, 2, Tenths(-2)),
      SpokenLine(LongAgo, 7, Tenths(-5)),
      GarbageLine }

InitSummary ==
    /\ transcription_log \in SeqsUpTo(TranscriptionLines, MaxLines)
    /\ template_log \in SeqsUpTo(TemplateLines, MaxLines)
    /\ Len(transcription_log) + Len(template_log) <= MaxLines
    /\ log_files \in SUBSET {TRANSCRIPTION_LOG, TEMPLATE_LOG}
    /\ transcription_log # <<>> => TRANSCRIPTION_LOG \in log_files
    /\ template_log # <<>> => TEMPLATE_LOG \in log_files
    /\ now = SummaryNow
    /\ gemini_model = TRUE
    /\ call = NoCall
    /\ response = NoResponse
    /\ open_files = NoOpenFiles

NextSummary == GetMetrics

SpecSummary == InitSummary /\ [][NextSummary]_vars

----------------------------------------------------------------------------
(* SpecAppend: request handlers running in several threads.  A handler     *)
(* that has its metric calls log_transcription or log_template_usage, and  *)
(* the steps of that call in one thread interleave with the steps of the   *)
(* other threads; nothing in the tracker orders them.  The steps are       *)
(* those of the file object; whether the final write moves to the end of   *)
(* the file and writes in one step is the operating system's choice.       *)

\* the lines of the file at a path, and the file holding a new text
LogAt(path) == IF path = TEMPLATE_LOG THEN template_log ELSE transcription_log
Store(path, text) ==
    /\ template_log' =
          IF path = TEMPLATE_LOG THEN ReadLines(text) ELSE template_log
    /\ transcription_log' =
          IF path = TRANSCRIPTION_LOG THEN ReadLines(text) ELSE transcription_log

RECURSIVE AppendsStarted(_)
AppendsStarted(threads) ==
    IF threads = {} THEN 0
    ELSE LET t == CHOOSE t \in threads : TRUE
         IN  Len(open_files[t].appended)
             + (IF open_files[t].f.pc = "closed" THEN 0 ELSE 1)
             + AppendsStarted(threads \ {t})

\* the thread enters the with block: the file exists and the line is in the
\* buffer of the file object
OpenAndBuffer(t, path, metric) ==
    /\ open_files[t].f.pc = "closed"
    /\ AppendsStarted(HandlerThreads) < MaxAppends
    /\ open_files' =
          [open_files EXCEPT ![t].f = FileWritten(FileOpened(path), JsonLine(metric))]
    /\ log_files' = log_files \cup {path}
    /\ UNCHANGED <<transcription_log, template_log, now, gemini_model, call,
                   response>>

\* process_note in thread t reaches metrics_tracker.log_template_usage(metric)
LogTemplateUsage(t) ==
    \E data \in SomeNoteRequests, note_id \in UUIDs, uuid8 \in UUID8s,
       duration \in Durations, llm \in SomeServiceOutcomes :
        LET r == process_note(data, note_id, uuid8, duration, llm)
        IN  /\ r.metrics # <<>>
            /\ OpenAndBuffer(t, TEMPLATE_LOG, r.metrics[1])

\* transcribe in thread t reaches metrics_tracker.log_transcription(metric)
LogTranscription(t) ==
    \E id \in SomeIds, duration \in Durations,
       outcome \in SomeTranscribeOutcomes :
        LET r == transcribe(TRUE, id, duration, outcome)
        IN  /\ r.metrics # <<>>
            /\ OpenAndBuffer(t, TRANSCRIPTION_LOG, r.metrics[1])

\* the line a buffer holds, as a reader of the file would take it
LineOf(buffer) == ReadLines(buffer)[1]

\* the thread leaves the with block, and the write happens in one step
CloseAppending(t) ==
    LET f == open_files[t].f
    IN  /\ f.pc = "written"
        /\ Store(f.path, AppendWrite(FileText(LogAt(f.path), FieldsOf(f.path)), f))
        /\ open_files' = [open_files EXCEPT ![t].f = Closed,
                             ![t].appended = Append(@, [path |-> f.path, line |-> LineOf(f.buffer)])]
        /\ UNCHANGED <<log_files, now, gemini_model, call, response>>

\* the thread leaves the with block, and the write happens in two steps:
\* the position moves to the end of the file ...
CloseSeeking(t) ==
    LET f == open_files[t].f
    IN  /\ f.pc = "written"
        /\ open_files' =
              [open_files EXCEPT
                  ![t].f = FileSeeked(FileText(LogAt(f.path), FieldsOf(f.path)), f)]
        /\ UNCHANGED <<transcription_log, template_log, log_files, now,
                       gemini_model, call, response>>

\* ... and the text is written there
CloseWriting(t) ==
    LET f == open_files[t].f
    IN  /\ f.pc = "seeked"
        /\ Store(f.path, WriteAt(FileText(LogAt(f.path), FieldsOf(f.path)), f))
        /\ open_files' = [open_files EXCEPT ![t].f = Closed,
                             ![t].appended = Append(@, [path |-> f.path, line |-> LineOf(f.buffer)])]
        /\ UNCHANGED <<log_files, now, gemini_model, call, response>>

NextAppend ==
    \E t \in HandlerThreads :
        \/ LogTemplateUsage(t)
        \/ LogTranscription(t)
        \/ CloseAppending(t)
        \/ CloseSeeking(t)
        \/ CloseWriting(t)

SpecAppend == Init /\ [][NextAppend]_vars

----------------------------------------------------------------------------
(* Claims about process_note, checked under SpecNote *)

ServedNote == call.op = "process_note"
ReturnedFields == ServedNote /\ response.status = 200

\* the dict values among the returned fields
ReturnedDicts == DictValues(response.body.fields)

InUnitInterval(r) == RatLeq(RatZero, r) /\ RatLeq(r, Rat(1, 1))

LastTemplateRecord == template_log[Len(template_log)].data

\* C1: whenever the generation service returns text that does not parse as
\* JSON, process_note answers with a normal result (not a failure) in which
\* every field has source "fallback".
C1_ParseFailureFallsBack ==
    (ServedNote /\ call.extraction = "unparseable")
        => /\ response.status = 200
           /\ "fields" \in DOMAIN response.body
           /\ \A i \in 1..Len(response.body.fields.items) :
                LET f == response.body.fields.items[i].val
                IN  IsDict(f) /\ DictGet(f, "source", JStr("")) = JStr("fallback")

\* C2: a process_note call whose generation call raises (transport or service
\* fault) appends no record to the template log, returns no fields (there is
\* no fallback result) and answers with a failure.
C2_ServiceFailureLogsNothing ==
    (ServedNote /\ call.extraction = "service_error")
        => /\ call.appended = 0
           /\ template_log \in { <<>>, << JsonLine(EarlierNote) >> }
           /\ response.status = 500
           /\ DOMAIN response.body = {"error"}

C2_Witness ==
    /\ ServedNote
    /\ call.extraction = "service_error"
    /\ response.status = 500
    /\ template_log = << JsonLine(EarlierNote) >>

\* C3: every process_note call that ends in success or in a parse failure
\* appends exactly one record to the template log, and that record (the one
\* with the note's id) is in the log when the response is returned.
C3_OneMetricOnSuccessOrParseFailure ==
    (ServedNote /\ (response.status = 200 \/ call.extraction = "unparseable"))
        => /\ call.appended = 1
           /\ template_log # <<>>
           /\ response.status = 200 => LastTemplateRecord.id = response.body.note_id

\* C4: the keys of the fields process_note returns for a template are exactly
\* the placeholders of the template's text, whatever the service returned.
C4_FieldsArePlaceholders ==
    ReturnedFields
        => DictKeys(response.body.fields) = placeholders(call.sel.template_text)

\* C5: every field process_note returns has a confidence in [0, 1], and so
\* has the avg_confidence of the response metadata and of the logged record.
C5_ConfidenceInUnitInterval ==
    ReturnedFields
        => /\ \A i \in 1..Len(ReturnedDicts) :
                InUnitInterval(ConfidenceOf(ReturnedDicts[i]).num)
           /\ InUnitInterval(response.body.metadata.avg_confidence)
           /\ InUnitInterval(LastTemplateRecord.avg_confidence)

\* the request carries a non-empty custom_template / a macro_key of the store
HasCustomTemplate ==
    "custom_template" \in DOMAIN call.data /\ call.data.custom_template # EmptyStr
HasStaticKey ==
    "macro_key" \in DOMAIN call.data /\ call.data.macro_key \in DOMAIN STATIC_TEMPLATES

\* C6: template selection of a process_note call (of a service whose
\* generation client is configured): a template is resolved only if the
\* request carries custom_template text (then the source is dynamic, the key
\* generated with the prefix custom_ and the text the request's) or a
\* macro_key of the template store (then the source is static and key and
\* text the store's); a request that has 'text' and either of them resolves;
\* when neither is there the answer is 400 (invalid request), the generation
\* service is not called and no record is appended to the template log.
C6_TemplateSelection ==
    (ServedNote /\ gemini_model)
        => /\ call.sel.resolved => (HasCustomTemplate \/ HasStaticKey)
           /\ (call.stage # "missing_text" /\ (HasCustomTemplate \/ HasStaticKey))
                 => call.sel.resolved /\ call.extraction # "not_called"
           /\ (call.sel.resolved /\ HasCustomTemplate)
                 => /\ call.sel.template_source = "dynamic"
                    /\ Len(call.sel.template_key) = 2
                    /\ call.sel.template_key[1] = "custom_"
                    /\ call.sel.template_text = call.data.custom_template
           /\ (call.sel.resolved /\ ~HasCustomTemplate)
                 => /\ call.sel.template_source = "static"
                    /\ call.sel.template_key = call.data.macro_key
                    /\ call.sel.template_text = STATIC_TEMPLATES[call.data.macro_key]
           /\ ~(HasCustomTemplate \/ HasStaticKey)
                 => /\ response.status = 400
                    /\ call.extraction = "not_called"
                    /\ call.appended = 0

C6_Witness ==
    /\ ServedNote
    /\ gemini_model
    /\ call.stage = "select_template"
    /\ call.data = [text |-> Dictation, macro_key |-> KeyUnknown]
    /\ response.status = 400
    /\ template_log = << JsonLine(EarlierNote) >>

----------------------------------------------------------------------------
(* Claims about get_summary, checked under SpecSummary *)

ServedMetrics == call.op = "get_metrics"

\* the lines of a log that are records with a timestamp inside the window of
\* the last GET /metrics, by position
Window(lines) ==
    {i \in 1..Len(lines) :
        /\ lines[i].json
        /\ "timestamp" \in DOMAIN lines[i].data
        /\ lines[i].data.timestamp.fmt = "iso"
        /\ lines[i].data.timestamp.secs >= now - call.days * SecondsPerDay}

\* the sum of the rationals v[i], i in S
RECURSIVE SumOver(_, _)
SumOver(v, S) ==
    IF S = {} THEN RatZero
    ELSE LET i == CHOOSE j \in S : TRUE
         IN  RatAdd(v[i], SumOver(v, S \ {i}))

\* the sum of f over the lines at the positions S
SumAt(lines, S, f(_)) == SumOver([i \in S |-> f(lines[i].data)], S)

\* m is the mean of f over the positions S, 0 when there are none
IsMeanAt(m, lines, S, f(_)) ==
    LET sum == SumAt(lines, S, f)
    IN  IF S = {} THEN m.num = 0
        ELSE m.num * sum.den * Cardinality(S) = sum.num * m.den

WindowOfKey(key) ==
    {i \in Window(template_log) : template_log[i].data.template_key = key}

KeysInWindow == {template_log[i].data.template_key : i \in Window(template_log)}

FirstAt(key) ==
    CHOOSE i \in WindowOfKey(key) : \A j \in WindowOfKey(key) : i <= j

\* mean avg_confidence < 0.6 or mean user_corrections > 2, over the records
\* of the key in the window
OverThreshold(key) ==
    LET S == WindowOfKey(key)
        conf == SumAt(template_log, S, LAMBDA d : d.avg_confidence)
        corr == SumAt(template_log, S,
                      LAMBDA d : Rat(IF "user_corrections" \in DOMAIN d
                                     THEN d.user_corrections ELSE 0, 1))
    IN  \/ 10 * conf.num < 6 * conf.den * Cardinality(S)
        \/ corr.num > 2 * corr.den * Cardinality(S)

Problematic == response.body.template_stats.problematic_templates

\* C7: get_summary lists a key as problematic exactly when, over the records
\* of that key inside the window, the mean avg_confidence is below 0.6 or the
\* mean user_corrections is above 2; no key is listed twice, and the keys
\* are listed in the order in which they first appear in the log.
C7_ProblematicTemplates ==
    ServedMetrics
        => /\ \A j \in 1..Len(Problematic) :
                Problematic[j].template_key \in KeysInWindow
           /\ \A key \in KeysInWindow :
                (\E j \in 1..Len(Problematic) : Problematic[j].template_key = key)
                    <=> OverThreshold(key)
           /\ \A i, j \in 1..Len(Problematic) :
                i < j => /\ Problematic[i].template_key # Problematic[j].template_key
                         /\ FirstAt(Problematic[i].template_key)
                               < FirstAt(Problematic[j].template_key)

\* the fistula key (mean corrections 3) is listed before the carotid key
\* (confidences 0.3 and 0.5, mean 0.4)
C7_Witness ==
    /\ ServedMetrics
    /\ Len(template_log) = 3
    /\ Len(Problematic) = 2
    /\ Problematic[1].template_key = KeyK2
    /\ Problematic[2].template_key = KeyK1
    /\ Problematic[2].usage_count = 2
    /\ Problematic[2].avg_confidence = Tenths(4)

TranscriptionStats == response.body.transcription_stats
TemplateStats == response.body.template_stats

\* C8: get_summary(days) counts and averages, for each log, exactly the lines
\* that are records with timestamp >= now - days*86400; when there are none,
\* also when the log file does not exist, the means of that log are 0.0 and
\* the answer is still a summary.
C8_SummaryWindow ==
    ServedMetrics
        => /\ response.status = 200
           /\ response.body.period_days = call.days
           /\ TranscriptionStats.total_count = Cardinality(Window(transcription_log))
           /\ IsMeanAt(TranscriptionStats.avg_processing_time, transcription_log,
                       Window(transcription_log), LAMBDA d : d.processing_time)
           /\ IsMeanAt(TranscriptionStats.avg_confidence, transcription_log,
                       Window(transcription_log), LAMBDA d : d.confidence_avg)
           /\ TemplateStats.total_count = Cardinality(Window(template_log))
           /\ IsMeanAt(TemplateStats.avg_processing_time, template_log,
                       Window(template_log), LAMBDA d : d.processing_time)
           /\ IsMeanAt(TemplateStats.avg_confidence, template_log,
                       Window(template_log), LAMBDA d : d.avg_confidence)
           /\ TemplateStats.dynamic_template_usage =
                 Cardinality({i \in Window(template_log) :
                                template_log[i].data.template_source = "dynamic"})

\* one of three transcription lines is in the window (one is too old, one is
\* no record), and the template log file does not exist
C8_Witness ==
    /\ ServedMetrics
    /\ call.days = DefaultDays
    /\ Len(transcription_log) = 3
    /\ TranscriptionStats.total_count = 1
    /\ TranscriptionStats.avg_processing_time = Rat(2, 1)
    /\ TEMPLATE_LOG \notin log_files
    /\ TemplateStats.total_count = 0
    /\ TemplateStats.avg_confidence = RatZero

----------------------------------------------------------------------------
(* Claim about transcribe_batch, checked under SpecBatch *)

ServedBatch == call.op = "transcribe_batch" /\ Len(call.files) >= 1

Results == response.body.results

\* C9: transcribe_batch over n >= 1 files returns n results in input order,
\* one per file, with successful + failed = n; a file whose transcription
\* raises gives an entry with status error and an error field and changes
\* nothing for the files after it; every other file gives a success entry
\* with its transcript.
C9_BatchPartialSuccess ==
    ServedBatch
        => /\ response.status = 200
           /\ Len(Results) = Len(call.files)
           /\ response.body.total_files = Len(call.files)
           /\ response.body.successful + response.body.failed = Len(call.files)
           /\ response.body.failed =
                 Cardinality({i \in 1..Len(call.files) : call.files[i].outcome.raises})
           /\ \A i \in 1..Len(Results) :
                /\ Results[i].file_index = i - 1
                /\ Results[i].filename = call.files[i].filename
                /\ call.files[i].outcome.raises
                      => /\ Results[i].status = "error"
                         /\ "error" \in DOMAIN Results[i]
                         /\ "text" \notin DOMAIN Results[i]
                /\ ~call.files[i].outcome.raises
                      => /\ Results[i].status = "success"
                         /\ "error" \notin DOMAIN Results[i]
                         /\ Results[i].text = JoinText(call.files[i].outcome.segments)

\* three files, the second of which raises
C9_Witness ==
    /\ ServedBatch
    /\ Len(call.files) = 3
    /\ ~call.files[1].outcome.raises
    /\ call.files[2].outcome.raises
    /\ ~call.files[3].outcome.raises
    /\ response.body.successful = 2
    /\ response.body.failed = 1
    /\ Results[2].status = "error"
    /\ Results[3].status = "success"

----------------------------------------------------------------------------
(* Claim about the logs, checked under Spec *)

IsPrefix(s, t) == Len(s) <= Len(t) /\ SubSeq(t, 1, Len(s)) = s

----------------------------------------------------------------------------
(* Claims about scoring, checked under SpecNote *)

\* the fields of the response that carry a confidence: those whose value is
\* an object; an object without a "confidence" entry has confidence 0
ScoredAt == {i \in 1..Len(response.body.fields.items) :
                IsDict(response.body.fields.items[i].val)}
ScoreAt(i) == ConfidenceOf(response.body.fields.items[i].val).num
LowAt == {i \in ScoredAt : ScoreAt(i).num * 10 < 7 * ScoreAt(i).den}

\* m is the mean of the scores, 0 when no field carries one
IsMeanScore(m) ==
    LET sum == SumOver([i \in ScoredAt |-> ScoreAt(i)], ScoredAt)
    IN  IF ScoredAt = {} THEN m.num = 0
        ELSE m.num * sum.den * Cardinality(ScoredAt) = sum.num * m.den

\* C12: when process_note returns fields, the average confidence is the mean
\* of the confidences of the fields (0.0 when there is none), the
\* low-confidence fields are exactly those with confidence below 0.7, the
\* response metadata and the record appended to the template log carry the
\* same average and the same low-confidence count, and in the record that
\* count is at most field_count.
C12_Scoring ==
    ReturnedFields
        => LET metadata == response.body.metadata
               low == metadata.low_confidence_fields
           IN  /\ IsMeanScore(metadata.avg_confidence)
               /\ {low[j] : j \in 1..Len(low)}
                     = {response.body.fields.items[i].key : i \in LowAt}
               /\ Len(low) = Cardinality(LowAt)
               /\ metadata.low_confidence_count = Cardinality(LowAt)
               /\ call.appended = 1
               /\ LastTemplateRecord.id = response.body.note_id
               /\ LastTemplateRecord.avg_confidence = metadata.avg_confidence
               /\ LastTemplateRecord.low_confidence_count
                     = metadata.low_confidence_count
               /\ LastTemplateRecord.low_confidence_count
                     <= LastTemplateRecord.field_count

\* a note whose two fields score 0.7 and 0.6: the mean is 0.65, only the
\* second field is low, and the record says the same
C12_Witness ==
    /\ ReturnedFields
    /\ response.body.fields = FilledBoundary
    /\ response.body.metadata.avg_confidence = Rat(13, 20)
    /\ response.body.metadata.low_confidence_fields = << "dx" >>
    /\ LastTemplateRecord.avg_confidence = Rat(13, 20)
    /\ LastTemplateRecord.low_confidence_count = 1
    /\ LastTemplateRecord.field_count = 2

----------------------------------------------------------------------------
(* Claims about concurrent appends, checked under SpecAppend *)

\* the appends to the file at a path that have returned, over all threads
RECURSIVE Returned(_, _)
Returned(threads, path) ==
    IF threads = {} THEN <<>>
    ELSE LET t == CHOOSE t \in threads : TRUE
         IN  SelectSeq(open_files[t].appended, LAMBDA a : a.path = path)
             \o Returned(threads \ {t}, path)

Occurrences(lines, line) == Cardinality({i \in 1..Len(lines) : lines[i] = line})

WholeRecords(path) == \A i \in 1..Len(LogAt(path)) : LogAt(path)[i].json

NoneLost(path) ==
    LET done == Map(LAMBDA a : a.line, Returned(HandlerThreads, path))
    IN  \A i \in 1..Len(done) :
            Occurrences(LogAt(path), done[i]) >= Occurrences(done, done[i])

\* C11: appends by concurrent handlers are safe: in every interleaving each
\* log is a sequence of whole records, every append that has returned has
\* its record in the log, and no line holds part of another record.
C11_ConcurrentAppendsAreAtomic ==
    \A path \in {TRANSCRIPTION_LOG, TEMPLATE_LOG} :
        WholeRecords(path) /\ NoneLost(path)

====
